---------------------------- MODULE Spec2Model ----------------------------
(***************************************************************************)
(* The market pallet of subswap (frame/market/src/lib.rs): a constant-     *)
(* product AMM with the dispatchables mint_liquidity, burn_liquidity and   *)
(* swap, the reserve and pair stores, and the price oracle updater.        *)
(*                                                                         *)
(* Balance, Moment and FixedU128 are modelled as unsigned integers of a    *)
(* reduced width (BalanceBits, MomentBits, FixedBits) so that every value  *)
(* stays inside TLC's integers; arithmetic keeps the code's checked or     *)
(* unchecked character at that width.                                      *)
(*                                                                         *)
(* A dispatch is atomic: when it returns an error or panics, no store and  *)
(* no ledger balance changes (spec 4.7, provided by the host).             *)
(***************************************************************************)
EXTENDS Integers, Sequences, FiniteSets, TLC

\* ------------------------------------------------------------------ bounds

\* Width of Balance in the model (the runtime's Balance is u128).
BalanceBits == 23
\* Width of the oracle's wrapped block time (the code wraps at 2^32).
TimeBits == 1
\* Width of Moment in the model (the runtime's Moment is u64).
MomentBits == 3
\* Width of FixedU128's inner integer in the model (u128 in the runtime).
FixedBits == 23
\* Last block time the clock reaches.
MaxTime == 2
\* Number of committed dispatches in a behaviour.
MaxOps == 2

\* --------------------------------------------------------------- constants

\* minimum_liquidity of mint_liquidity.
MinimumLiquidity == 1000
\* Fee numerator and denominator of _get_amount_out.
FeeNumerator == 997
FeeDenominator == 1000
\* FixedU128's accuracy (DIV), reduced from 10^18.
FixedDIV == 100

MaxBalance == 2^BalanceBits - 1
BalanceModulus == 2^BalanceBits
TimeModulus == 2^TimeBits
MomentModulus == 2^MomentBits
FixedMaxInner == 2^FixedBits - 1

\* Option::None, and the panic of an `expect` or an overflow check.
None == -1
System == "system"
\* alice provides liquidity, bob trades; bob holds no asset at the start.
Providers == {"alice"}
Traders == {"bob"}
Users == Providers \cup Traders
Accounts == Users \cup {System}

\* Assets issued before the market is used, and every asset id of the model.
Tokens == {0, 1, 2}
FirstFreeAssetId == Cardinality(Tokens)
AssetIds == 0..(FirstFreeAssetId + 1)

\* Inputs of the dispatchables.
TokenPairs == {<<0, 1>>, <<1, 0>>, <<1, 2>>, <<2, 1>>, <<1, 1>>}
BurnLpts == {0, FirstFreeAssetId, FirstFreeAssetId + 1}
MintAmounts == {0, 1000, 4000}
BurnAmounts == {0, 500, 1000}
SwapAmounts == {0, 1, 8}
InitialBalance == 10000

\* ------------------------------------------------------------ math kernel

Min(a, b) == IF a < b THEN a ELSE b

\* checked_mul: the product, or None when it does not fit in Balance.
checked_mul(a, b) ==
    IF a = 0 \/ b = 0 THEN 0
    ELSE IF a > MaxBalance \div b THEN None
    ELSE a * b

\* checked_add: the sum, or None when it does not fit in Balance.
checked_add(a, b) == IF a > MaxBalance - b THEN None ELSE a + b

\* checked_sub: the difference, or None when it would be negative.
checked_sub(a, b) == IF a < b THEN None ELSE a - b

\* checked_div: the floor quotient, or None on division by zero.
checked_div(a, b) == IF b = 0 THEN None ELSE a \div b

\* (a * b) mod 2^BalanceBits by double-and-add: what the unchecked `*` of a
\* build without overflow checks produces.
RECURSIVE wrapping_mul(_, _)
wrapping_mul(a, b) ==
    IF b = 0 THEN 0
    ELSE LET half == wrapping_mul(a, b \div 2)
             dbl  == (half + half) % BalanceModulus
         IN IF b % 2 = 1 THEN (dbl + a) % BalanceModulus ELSE dbl

\* Heron iteration of math::sqrt from the first guess x, with z the best so far.
RECURSIVE sqrt_iter(_, _, _)
sqrt_iter(y, z, x) ==
    IF x < z THEN sqrt_iter(y, x, ((y \div x) + x) \div 2) ELSE z

\* math::sqrt: floor of the square root.
sqrt(y) ==
    IF y > 3 THEN sqrt_iter(y, y, (y \div 2) + 1)
    ELSE IF y # 0 THEN 1
    ELSE 0


\* The unchecked `*` of Balance: a build with overflow checks panics (None), a
\* build without them wraps.
unchecked_mul(bld, a, b) ==
    IF checked_mul(a, b) # None THEN a * b
    ELSE IF bld = "checked" THEN None
    ELSE wrapping_mul(a, b)

\* The unchecked `+=` of Balance.
unchecked_add(bld, a, b) ==
    IF a + b <= MaxBalance THEN a + b
    ELSE IF bld = "checked" THEN None
    ELSE (a + b) % BalanceModulus

\* The unchecked `-=` of Balance.
unchecked_sub(bld, a, b) ==
    IF a >= b THEN a - b
    ELSE IF bld = "checked" THEN None
    ELSE a - b + BalanceModulus

\* The unchecked `-` of Moment.
moment_sub(bld, a, b) ==
    IF a >= b THEN a - b
    ELSE IF bld = "checked" THEN None
    ELSE a - b + MomentModulus

\* ------------------------------------------------------------------- state

VARIABLES
    Pairs,                  \* (AssetId, AssetId) -> lpt id or None
    Reserves,               \* lpt id -> (Balance, Balance)
    Rewards,                \* lpt id -> (AssetId, AssetId)
    LastBlockTimestamp,     \* Moment
    LastAccumulativePrice,  \* lpt id -> (FixedU128 inner, FixedU128 inner)
    Balances,               \* asset ledger: (AssetId, AccountId) -> Balance
    TotalSupply,            \* asset ledger: AssetId -> Balance
    NextAssetId,            \* asset ledger: next id to issue
    now,                    \* the timestamp pallet's block time
    build,                  \* whether the build checks integer overflow
    ops,                    \* committed dispatches so far
    last                    \* the last dispatch: call, arguments, result, events

vars == <<Pairs, Reserves, Rewards, LastBlockTimestamp, LastAccumulativePrice,
          Balances, TotalSupply, NextAssetId, now, build, ops, last>>

stores == <<Pairs, Reserves, Rewards, LastBlockTimestamp, LastAccumulativePrice,
            Balances, TotalSupply, NextAssetId>>

\* The storage a dispatch reads and writes, as one record.
Cur ==
    [Pairs |-> Pairs, Reserves |-> Reserves, Rewards |-> Rewards,
     LastBlockTimestamp |-> LastBlockTimestamp,
     LastAccumulativePrice |-> LastAccumulativePrice,
     Balances |-> Balances, TotalSupply |-> TotalSupply,
     NextAssetId |-> NextAssetId, events |-> <<>>, calls |-> <<>>]

Ok(st) == [err |-> "Ok", st |-> st]
Err(st, e) == [err |-> e, st |-> st]
Panic(st) == [err |-> "Panic", st |-> st]

deposit_event(st, ev) == [st EXCEPT !.events = Append(@, ev)]

\* The ledger calls a dispatch has made, in order (an observation, not storage).
log_call(st, call) == [st EXCEPT !.calls = Append(@, call)]

\* ------------------------------------------------------------ asset ledger

total_supply(st, id) == st.TotalSupply[id]

transfer_to_system(st, id, who, amount) ==
    IF st.Balances[<<id, who>>] < amount THEN Err(st, "LedgerError")
    ELSE Ok(log_call([st EXCEPT !.Balances =
                        [[@ EXCEPT ![<<id, who>>] = @ - amount]
                            EXCEPT ![<<id, System>>] = @ + amount]],
                     <<"transfer_to_system", id, who, amount>>))

transfer_from_system(st, id, who, amount) ==
    IF st.Balances[<<id, System>>] < amount THEN Err(st, "LedgerError")
    ELSE Ok(log_call([st EXCEPT !.Balances =
                        [[@ EXCEPT ![<<id, System>>] = @ - amount]
                            EXCEPT ![<<id, who>>] = @ + amount]],
                     <<"transfer_from_system", id, who, amount>>))

issue_from_system(st, total) ==
    LET id == st.NextAssetId
    IN Ok(log_call([st EXCEPT !.NextAssetId = id + 1,
                              !.Balances[<<id, System>>] = total,
                              !.TotalSupply[id] = total],
                   <<"issue_from_system", id, System, total>>))

mint_from_system(st, id, who, amount) ==
    IF st.TotalSupply[id] + amount > MaxBalance THEN Err(st, "LedgerError")
    ELSE Ok(log_call([st EXCEPT !.Balances[<<id, who>>] = @ + amount,
                                !.TotalSupply[id] = @ + amount],
                     <<"mint_from_system", id, who, amount>>))

burn_from_system(st, id, who, amount) ==
    IF st.Balances[<<id, who>>] < amount THEN Err(st, "LedgerError")
    ELSE Ok(log_call([st EXCEPT !.Balances[<<id, who>>] = @ - amount,
                                !.TotalSupply[id] = @ - amount],
                     <<"burn_from_system", id, who, amount>>))

\* ------------------------------------------------------------------ stores

reserves(st, lpt) == st.Reserves[lpt]

reward(st, lpt) == st.Rewards[lpt]

\* The pair lookup answering for the ascending order only.
pair_ascending_only(st, a, b) == IF a < b THEN st.Pairs[<<a, b>>] ELSE None

pair(st, a, b) == st.Pairs[<<a, b>>]

_set_reserves(st, token0, token1, amount0, amount1, lptoken) ==
    IF token0 > token1
    THEN [st EXCEPT !.Reserves[lptoken] = <<amount1, amount0>>]
    ELSE [st EXCEPT !.Reserves[lptoken] = <<amount0, amount1>>]

\* _set_pair inserting the caller's order only.
set_pair_one_way(st, token0, token1, lptoken) ==
    [st EXCEPT !.Pairs[<<token0, token1>>] = lptoken]

_set_pair(st, token0, token1, lptoken) ==
    [st EXCEPT !.Pairs = [[@ EXCEPT ![<<token0, token1>>] = lptoken]
                             EXCEPT ![<<token1, token0>>] = lptoken]]

\* _get_amount_out rounding the quotient up instead of down.
get_amount_out_rounding_up(amount_in, reserve_in, reserve_out) ==
    LET amount_inWithFee == amount_in * FeeNumerator
        denominator      == reserve_in * FeeDenominator + amount_inWithFee
    IN IF checked_mul(amount_in, FeeNumerator) = None
          \/ checked_mul(amount_inWithFee, reserve_out) = None
          \/ checked_mul(reserve_in, FeeDenominator) = None
          \/ denominator > MaxBalance \/ denominator = 0
       THEN None
       ELSE (amount_inWithFee * reserve_out + denominator - 1) \div denominator

\* The amount paid out, or None when a checked operation panics.
_get_amount_out(amount_in, reserve_in, reserve_out) ==
    LET amount_inWithFee == checked_mul(amount_in, FeeNumerator)
    IN IF amount_inWithFee = None THEN None
       ELSE LET numerator == checked_mul(amount_inWithFee, reserve_out)
                scaled    == checked_mul(reserve_in, FeeDenominator)
            IN IF numerator = None \/ scaled = None THEN None
               ELSE LET denominator == checked_add(scaled, amount_inWithFee)
                    IN IF denominator = None THEN None
                       ELSE IF denominator = 0 THEN None
                       ELSE numerator \div denominator


\* ------------------------------------------------------------------ oracle

\* FixedU128::saturating_from_integer: the inner value n * DIV, saturated.
saturating_from_integer(n) ==
    IF n > FixedMaxInner \div FixedDIV THEN FixedMaxInner ELSE n * FixedDIV

\* FixedU128::checked_div on inner values: floor(a * DIV / b), or None.
fixed_checked_div(a, b) ==
    IF b = 0 THEN None
    ELSE LET q == (a * FixedDIV) \div b
         IN IF q > FixedMaxInner THEN None ELSE q

\* FixedU128's `*` on inner values: floor(a * b / DIV); it panics (None) when
\* the product does not fit.
fixed_mul(a, b) ==
    LET whole == b \div FixedDIV
        frac  == b % FixedDIV
    IN IF whole # 0 /\ a > FixedMaxInner \div whole THEN None
       ELSE LET p == a * whole + (a * frac) \div FixedDIV
            IN IF p > FixedMaxInner THEN None ELSE p

\* The guard of _update with the elapsed time allowed to be zero.
should_update_at_zero_elapsed(time_elapsed, res) ==
    time_elapsed >= 0 /\ res[1] # 0 /\ res[2] # 0

\* The guard of _update: time has passed and both reserves are non-zero.
should_update(time_elapsed, res) ==
    time_elapsed > 0 /\ res[1] # 0 /\ res[2] # 0

_update(st, lpt, time, bld) ==
    LET block_timestamp == time % TimeModulus
        time_elapsed    == moment_sub(bld, block_timestamp, st.LastBlockTimestamp)
        res             == reserves(st, lpt)
    IN IF time_elapsed = None THEN Panic(st)
       ELSE IF should_update(time_elapsed, res)
       THEN LET reserve0 == saturating_from_integer(res[1])
                reserve1 == saturating_from_integer(res[2])
                elapsed  == saturating_from_integer(time_elapsed)
                ratio0   == fixed_checked_div(reserve1, reserve0)
                ratio1   == fixed_checked_div(reserve0, reserve1)
            IN IF ratio0 = None \/ ratio1 = None THEN Panic(st)
               ELSE LET price0_cumulative_last == fixed_mul(ratio0, elapsed)
                        price1_cumulative_last == fixed_mul(ratio1, elapsed)
                    IN IF price0_cumulative_last = None
                          \/ price1_cumulative_last = None
                       THEN Panic(st)
                       ELSE Ok(deposit_event(
                              [st EXCEPT
                                 !.LastAccumulativePrice[lpt] =
                                     <<price0_cumulative_last,
                                       price1_cumulative_last>>,
                                 !.LastBlockTimestamp = block_timestamp],
                              <<"Sync", price0_cumulative_last,
                                price1_cumulative_last>>))
       ELSE Ok(st)


\* ------------------------------------------------------------ dispatchables

\* The first-mint branch (Pairs has no entry), after both deposits.
mint_first(st, sender, token0, amount0, token1, amount1, bld) ==
    LET product == unchecked_mul(bld, amount0, amount1)
    IN IF product = None THEN Panic(st)
       ELSE LET lptoken_amount == checked_sub(sqrt(product), MinimumLiquidity)
            IN IF lptoken_amount = None THEN Panic(st)
               ELSE LET issued     == issue_from_system(st, 0).st
                        lptoken_id == issued.NextAssetId - 1
                        stored     == _set_reserves(issued, token0, token1,
                                                    amount0, amount1, lptoken_id)
                        paired     == _set_pair(stored, token0, token1, lptoken_id)
                        minted     == mint_from_system(paired, lptoken_id, sender,
                                                       lptoken_amount)
                    IN IF minted.err # "Ok" THEN minted
                       ELSE Ok(deposit_event(minted.st,
                                 <<"CreatePair", token0, token1, lptoken_id>>))

\* The shares of a subsequent mint credited by the first deposit alone.
mint_shares_left_only(amount0, amount1, supply, res) ==
    LET mul0 == checked_mul(amount0, supply)
        mul1 == checked_mul(amount1, supply)
    IN IF mul0 = None \/ mul1 = None THEN None
       ELSE IF checked_div(mul0, res[1]) = None \/ checked_div(mul1, res[2]) = None
       THEN None
       ELSE checked_div(mul0, res[1])

\* The shares of a subsequent mint: min(left, right), or None when a checked
\* operation panics.
mint_shares(amount0, amount1, supply, res) ==
    LET mul0 == checked_mul(amount0, supply)
        mul1 == checked_mul(amount1, supply)
    IN IF mul0 = None \/ mul1 = None THEN None
       ELSE LET left  == checked_div(mul0, res[1])
                right == checked_div(mul1, res[2])
            IN IF left = None \/ right = None THEN None
               ELSE Min(left, right)

\* The subsequent-mint branch (the pool exists with a positive supply).
mint_subsequent(st, sender, token0, amount0, token1, amount1, lpt, time, bld) ==
    LET supply         == total_supply(st, lpt)
        res            == reserves(st, lpt)
        lptoken_amount == mint_shares(amount0, amount1, supply, res)
    IN IF lptoken_amount = None THEN Panic(st)
       ELSE LET new0 == unchecked_add(bld, res[1], amount0)
                new1 == unchecked_add(bld, res[2], amount1)
            IN IF new0 = None \/ new1 = None THEN Panic(st)
               ELSE LET stored == _set_reserves(st, token0, token1,
                                                new0, new1, lpt)
                        minted == mint_from_system(stored, lpt, sender,
                                                   lptoken_amount)
                    IN IF minted.err # "Ok" THEN minted
                       ELSE _update(deposit_event(minted.st,
                                      <<"CreatePair", token0, token1, lpt>>),
                                    lpt, time, bld)

\* mint_liquidity after its ensure!: the two deposits, then the branch on Pairs.
mint_deposits(st, sender, token0, amount0, token1, amount1, time, bld) ==
    LET in0 == transfer_to_system(st, token0, sender, amount0)
    IN IF in0.err # "Ok" THEN in0
       ELSE LET in1 == transfer_to_system(in0.st, token1, sender, amount1)
            IN IF in1.err # "Ok" THEN in1
               ELSE LET lpt == pair(in1.st, token0, token1)
                    IN IF lpt = None
                       THEN mint_first(in1.st, sender, token0, amount0,
                                       token1, amount1, bld)
                       ELSE IF total_supply(in1.st, lpt) > 0
                       THEN mint_subsequent(in1.st, sender, token0, amount0,
                                            token1, amount1, lpt, time, bld)
                       ELSE IF total_supply(in1.st, lpt) < 0
                       THEN Err(in1.st, "InsufficientLiquidityMinted")
                       ELSE Err(in1.st, "NoneValue")

\* mint_liquidity without the check that the two tokens differ.
mint_liquidity_any_tokens(st, sender, token0, amount0, token1, amount1, time, bld) ==
    mint_deposits(st, sender, token0, amount0, token1, amount1, time, bld)

mint_liquidity(st, sender, token0, amount0, token1, amount1, time, bld) ==
    IF token0 = token1 THEN Err(st, "IdenticalIdentifier")
    ELSE mint_deposits(st, sender, token0, amount0, token1, amount1, time, bld)

\* The pro-rata reward with the quotient rounded up.
pro_rata_rounding_up(amount, reserve, supply) ==
    LET mul == checked_mul(amount, reserve)
    IN IF mul = None \/ supply = 0 THEN None
       ELSE (mul + supply - 1) \div supply

\* The pro-rata reward of burn_liquidity: amount * reserve / total_supply with
\* checked operations, or None when one of them panics.
pro_rata(amount, reserve, supply) ==
    LET mul == checked_mul(amount, reserve)
    IN IF mul = None THEN None ELSE checked_div(mul, supply)

burn_liquidity(st, sender, lpt, amount, time, bld) ==
    LET res    == reserves(st, lpt)
        tokens == reward(st, lpt)
        supply == total_supply(st, lpt)
    IN LET reward0 == pro_rata(amount, res[1], supply)
           reward1 == pro_rata(amount, res[2], supply)
       IN IF reward0 = None \/ reward1 = None THEN Panic(st)
          ELSE IF ~(reward0 > 0 /\ reward1 > 0)
               THEN Err(st, "InsufficientLiquidityBurned")
               ELSE LET burned == burn_from_system(st, lpt, sender, amount)
                    IN IF burned.err # "Ok" THEN burned
                       ELSE LET out0 == transfer_from_system(burned.st, tokens[1],
                                                             sender, reward0)
                            IN IF out0.err # "Ok" THEN out0
                               ELSE LET out1 == transfer_from_system(out0.st,
                                                  tokens[2], sender, reward1)
                                    IN IF out1.err # "Ok" THEN out1
                                       ELSE LET new0 == unchecked_sub(bld, res[1], reward0)
                                                new1 == unchecked_sub(bld, res[2], reward1)
                                            IN IF new0 = None \/ new1 = None
                                               THEN Panic(st)
                                               ELSE _update(
                                                 deposit_event(
                                                   _set_reserves(out1.st, tokens[1],
                                                     tokens[2], new0, new1, lpt),
                                                   <<"BurnedLiquidity", lpt,
                                                     tokens[1], tokens[2]>>),
                                                 lpt, time, bld)

\* The checks of swap with the pair looked up before the amount is checked.
swap_validate_pair_first(st, from, amount_in, to) ==
    IF pair(st, from, to) = None THEN "InvalidPair"
    ELSE IF ~(amount_in > 0) THEN "InsufficientAmount"
    ELSE LET res == reserves(st, pair(st, from, to))
         IN IF ~(res[1] > 0 /\ res[2] > 0) THEN "InsufficientLiquidity"
            ELSE "Ok"

\* The checks of swap before any write: the error they raise, or "Ok".
swap_validate(st, from, amount_in, to) ==
    IF ~(amount_in > 0) THEN "InsufficientAmount"
    ELSE IF pair(st, from, to) = None THEN "InvalidPair"
    ELSE LET res == reserves(st, pair(st, from, to))
         IN IF ~(res[1] > 0 /\ res[2] > 0) THEN "InsufficientLiquidity"
            ELSE "Ok"

\* (reserve_in, reserve_out) taken in storage order whatever the direction.
resolve_reserves_storage_order(from, to, res) == <<res[1], res[2]>>

\* (reserve_in, reserve_out) of swap from the stored reserves.
resolve_reserves(from, to, res) ==
    IF from > to THEN <<res[2], res[1]>> ELSE <<res[1], res[2]>>

swap(st, sender, from, amount_in, to, time, bld) ==
    IF swap_validate(st, from, amount_in, to) # "Ok"
    THEN Err(st, swap_validate(st, from, amount_in, to))
    ELSE LET lpt         == pair(st, from, to)
             inout       == resolve_reserves(from, to, reserves(st, lpt))
             reserve_in  == inout[1]
             reserve_out == inout[2]
             amount_out  == _get_amount_out(amount_in, reserve_in, reserve_out)
         IN IF amount_out = None THEN Panic(st)
            ELSE LET paid == transfer_from_system(st, to, sender, amount_out)
                 IN IF paid.err # "Ok" THEN paid
                    ELSE LET new_in  == unchecked_add(bld, reserve_in, amount_in)
                             new_out == unchecked_sub(bld, reserve_out, amount_out)
                         IN IF new_in = None \/ new_out = None THEN Panic(st)
                            ELSE _update(
                                   deposit_event(
                                     _set_reserves(paid.st, from, to, new_in,
                                                   new_out, lpt),
                                     <<"Swap", from, amount_in, to, amount_out>>),
                                   lpt, time, bld)

\* ---------------------------------------------------------- specification

\* The storage before the market is used: every market store at its default,
\* the tokens issued to the providers.
Genesis ==
    [Pairs |-> [p \in AssetIds \X AssetIds |-> None],
     Reserves |-> [a \in AssetIds |-> <<0, 0>>],
     Rewards |-> [a \in AssetIds |-> <<0, 0>>],
     LastBlockTimestamp |-> 0,
     LastAccumulativePrice |-> [a \in AssetIds |-> <<0, 0>>],
     Balances |-> [k \in AssetIds \X Accounts |->
                     IF k[1] \in Tokens /\ k[2] \in Providers
                     THEN InitialBalance ELSE 0],
     TotalSupply |-> [a \in AssetIds |->
                        IF a \in Tokens
                        THEN InitialBalance * Cardinality(Providers) ELSE 0],
     NextAssetId |-> FirstFreeAssetId,
     events |-> <<>>, calls |-> <<>>]

\* The storage of st at the start of the next dispatch.
NextDispatch(st) == [st EXCEPT !.events = <<>>, !.calls = <<>>]

\* Genesis after alice's mint_liquidity(0, 4000, 1, 1000), twice, at block
\* time 0: the pool of {0, 1} exists and the system account holds 8000 of
\* asset 0.
FundedFirst == mint_liquidity(Genesis, "alice", 0, 4000, 1, 1000, 0, "checked")
FundedSecond ==
    mint_liquidity(NextDispatch(FundedFirst.st), "alice", 0, 4000, 1, 1000, 0,
                   "checked")
Funded == NextDispatch(FundedSecond.st)

\* The variables hold the storage st and no dispatch has been made yet.
StartFrom(st) ==
    /\ Pairs = st.Pairs
    /\ Reserves = st.Reserves
    /\ Rewards = st.Rewards
    /\ LastBlockTimestamp = st.LastBlockTimestamp
    /\ LastAccumulativePrice = st.LastAccumulativePrice
    /\ Balances = st.Balances
    /\ TotalSupply = st.TotalSupply
    /\ NextAssetId = st.NextAssetId
    /\ now = 0
    /\ build \in {"checked", "unchecked"}
    /\ ops = 0
    /\ last = [op |-> "none", sender |-> System, args |-> <<>>, events |-> <<>>,
               calls |-> <<>>]

Init == StartFrom(Genesis)

\* The market after the two mints of Funded.
InitFunded ==
    /\ FundedFirst.err = "Ok"
    /\ FundedSecond.err = "Ok"
    /\ StartFrom(Funded)

\* A dispatch is atomic: its writes are committed when it returns Ok and
\* discarded when it returns an error or panics; `last` records the committed
\* call. A failed dispatch leaves every variable as it was.
Dispatch(op, sender, args, r) ==
    /\ ops < MaxOps
    /\ UNCHANGED <<now, build>>
    /\ IF r.err = "Ok"
       THEN /\ last' = [op |-> op, sender |-> sender, args |-> args,
                        events |-> r.st.events, calls |-> r.st.calls]
            /\ Pairs' = r.st.Pairs
            /\ Reserves' = r.st.Reserves
            /\ Rewards' = r.st.Rewards
            /\ LastBlockTimestamp' = r.st.LastBlockTimestamp
            /\ LastAccumulativePrice' = r.st.LastAccumulativePrice
            /\ Balances' = r.st.Balances
            /\ TotalSupply' = r.st.TotalSupply
            /\ NextAssetId' = r.st.NextAssetId
            /\ ops' = ops + 1
       ELSE UNCHANGED <<stores, ops, last>>

MintLiquidity ==
    \E sender \in Providers, tp \in TokenPairs, amount0 \in MintAmounts,
       amount1 \in MintAmounts :
        Dispatch("mint_liquidity", sender, <<tp[1], amount0, tp[2], amount1>>,
                 mint_liquidity(Cur, sender, tp[1], amount0, tp[2], amount1,
                                now, build))

BurnLiquidity ==
    \E sender \in Providers, lpt \in BurnLpts, amount \in BurnAmounts :
        Dispatch("burn_liquidity", sender, <<lpt, amount>>,
                 burn_liquidity(Cur, sender, lpt, amount, now, build))

Swap ==
    \E sender \in Traders, tp \in TokenPairs, amount_in \in SwapAmounts :
        Dispatch("swap", sender, <<tp[1], amount_in, tp[2]>>,
                 swap(Cur, sender, tp[1], amount_in, tp[2], now, build))

\* The timestamp pallet sets a later block time.
Tick ==
    /\ now < MaxTime
    /\ now' = now + 1
    /\ last' = [op |-> "tick", sender |-> System, args |-> <<>>, events |-> <<>>,
               calls |-> <<>>]
    /\ UNCHANGED <<stores, build, ops>>

Next == MintLiquidity \/ BurnLiquidity \/ Swap \/ Tick

Spec == Init /\ [][Next]_vars

\* The same dispatchables from the funded market.
SpecFunded == InitFunded /\ [][Next]_vars


\* ------------------------------------------------------------- properties

\* The step commits the dispatchable op.
Committed(op) == ops' = ops + 1 /\ last'.op = op

\* The stored reserve of token t in the pool of {t, other}.
ReserveOf(R, lpt, t, other) == IF t < other THEN R[lpt][1] ELSE R[lpt][2]

ReserveProduct(R, lpt) == R[lpt][1] * R[lpt][2]

\* The asset ids issued as pool shares so far.
IssuedLpts == FirstFreeAssetId..(NextAssetId - 1)

\* The last dispatch was a first mint (it issued the pool's share asset).
LastCreatedPool ==
    /\ last.op = "mint_liquidity"
    /\ \E i \in 1..Len(last.calls) : last.calls[i][1] = "issue_from_system"

\* C1: every committed swap, in either direction, leaves the product of each
\* pool's two reserves at least what it was before the swap.
C1_SwapProductNeverDecreases ==
    [][Committed("swap") =>
         \A lpt \in AssetIds :
             ReserveProduct(Reserves', lpt) >= ReserveProduct(Reserves, lpt)]_vars

\* A swap from the higher-id token to the lower-id one that paid out.
C1_Witness ==
    /\ last.op = "swap"
    /\ last.args[1] > last.args[3]
    /\ last.events[1][5] > 0

\* C2: a committed mint on an existing pool raises the stored reserve of
\* token0 by exactly amount0 and the stored reserve of token1 by exactly
\* amount1, whatever order the caller passes the tokens in.
C2_MintAddsToMatchingReserve ==
    [][(Committed("mint_liquidity")
          /\ Pairs[<<last'.args[1], last'.args[3]>>] # None) =>
         LET token0  == last'.args[1]
             amount0 == last'.args[2]
             token1  == last'.args[3]
             amount1 == last'.args[4]
             lpt     == Pairs[<<token0, token1>>]
         IN /\ ReserveOf(Reserves', lpt, token0, token1)
                 = ReserveOf(Reserves, lpt, token0, token1) + amount0
            /\ ReserveOf(Reserves', lpt, token1, token0)
                 = ReserveOf(Reserves, lpt, token1, token0) + amount1]_vars

\* C3: a committed swap pays floor(amount_in*997*reserve_out /
\* (reserve_in*1000 + amount_in*997)) of `to`, with reserve_in the stored
\* reserve of `from` and reserve_out that of `to`, and afterwards the stored
\* reserve of `from` is reserve_in + amount_in and that of `to` is
\* reserve_out - amount_out.
C3_SwapAmountAndReserves ==
    [][Committed("swap") =>
         LET from        == last'.args[1]
             amount_in   == last'.args[2]
             to          == last'.args[3]
             lpt         == Pairs[<<from, to>>]
             reserve_in  == ReserveOf(Reserves, lpt, from, to)
             reserve_out == ReserveOf(Reserves, lpt, to, from)
             amount_out  == (amount_in * 997 * reserve_out)
                              \div (reserve_in * 1000 + amount_in * 997)
         IN /\ last'.events[1] = <<"Swap", from, amount_in, to, amount_out>>
            /\ last'.calls
                 = << <<"transfer_from_system", to, last'.sender, amount_out>> >>
            /\ ReserveOf(Reserves', lpt, from, to) = reserve_in + amount_in
            /\ ReserveOf(Reserves', lpt, to, from) = reserve_out - amount_out]_vars

\* A swap from the higher-id token on a pool with unequal reserves that paid out.
C3_Witness ==
    /\ last.op = "swap"
    /\ last.args[1] > last.args[3]
    /\ last.events[1][5] > 0
    /\ LET lpt == Pairs[<<last.args[1], last.args[3]>>]
       IN Reserves[lpt][1] + last.events[1][5] # Reserves[lpt][2] - last.args[2]

\* C4: a committed swap lowers the caller's balance of `from` by exactly
\* amount_in and raises the caller's balance of `to` by exactly amount_out.
C4_SwapMovesBothBalances ==
    [][Committed("swap") =>
         LET from       == last'.args[1]
             amount_in  == last'.args[2]
             to         == last'.args[3]
             amount_out == last'.events[1][5]
             sender     == last'.sender
         IN /\ Balances'[<<from, sender>>] = Balances[<<from, sender>>] - amount_in
            /\ Balances'[<<to, sender>>] = Balances[<<to, sender>>] + amount_out]_vars

\* C5: a committed burn_liquidity(lpt, amount) on supply S and reserves
\* (r0, r1) pays floor(amount*r0/S) and floor(amount*r1/S), leaves the reserves
\* (r0 - floor(amount*r0/S), r1 - floor(amount*r1/S)) and the supply S - amount.
C5_BurnProRata ==
    [][Committed("burn_liquidity") =>
         LET lpt    == last'.args[1]
             amount == last'.args[2]
             S      == TotalSupply[lpt]
             r0     == Reserves[lpt][1]
             r1     == Reserves[lpt][2]
             out0   == (amount * r0) \div S
             out1   == (amount * r1) \div S
             calls  == last'.calls
         IN /\ Len(calls) = 3
            /\ calls[1] = <<"burn_from_system", lpt, last'.sender, amount>>
            /\ calls[2][1] = "transfer_from_system"
            /\ calls[2][3] = last'.sender /\ calls[2][4] = out0
            /\ calls[3][1] = "transfer_from_system"
            /\ calls[3][3] = last'.sender /\ calls[3][4] = out1
            /\ Reserves'[lpt] = <<r0 - out0, r1 - out1>>
            /\ TotalSupply'[lpt] = S - amount]_vars

\* A burn of part of the supply of a pool whose reserves differ.
C5_Witness ==
    /\ last.op = "burn_liquidity"
    /\ TotalSupply[last.args[1]] > 0
    /\ last.calls[2][4] # last.calls[3][4]

\* C6: the pool-tokens store maps every pool's lpt id to the pool's own
\* (token_lo, token_hi), and a committed burn pays its first payout in
\* token_lo and its second in token_hi.
C6_RewardsNamePoolTokens ==
    /\ \A a, b \in AssetIds :
         (a < b /\ Pairs[<<a, b>>] # None) => Rewards[Pairs[<<a, b>>]] = <<a, b>>
    /\ last.op = "burn_liquidity" =>
         \A a, b \in AssetIds :
             (a < b /\ Pairs[<<a, b>>] = last.args[1]) =>
                 last.calls[2][2] = a /\ last.calls[3][2] = b

\* C7: once a pool exists, the supply of its share asset is at least
\* MINIMUM_LIQUIDITY.
C7_SupplyAtLeastMinimum ==
    \A a, b \in AssetIds :
        Pairs[<<a, b>>] # None => TotalSupply[Pairs[<<a, b>>]] >= MinimumLiquidity

\* C8: the pair registry answers (a, b) and (b, a) alike, and both lookups of
\* a created pool return the pool's lpt id.
C8_PairSymmetry ==
    /\ \A a, b \in AssetIds : Pairs[<<a, b>>] = Pairs[<<b, a>>]
    /\ \A lpt \in IssuedLpts :
         \E a, b \in AssetIds :
             a # b /\ Pairs[<<a, b>>] = lpt /\ Pairs[<<b, a>>] = lpt
    /\ LastCreatedPool =>
         LET lpt == last.events[1][4]
         IN /\ Pairs[<<last.args[1], last.args[3]>>] = lpt
            /\ Pairs[<<last.args[3], last.args[1]>>] = lpt
            /\ lpt # None

\* A pool created by a first mint that passed the higher-id token first.
C8_Witness == LastCreatedPool /\ last.args[1] > last.args[3]

\* C9: a committed dispatch has no arithmetic on its path that overflows
\* Balance: the first mint's amount0*amount1 fits, and the reserve additions
\* of a subsequent mint and of a swap fit.
C9_NoOverflowIsCommitted ==
    [][/\ (Committed("mint_liquidity")
             /\ Pairs[<<last'.args[1], last'.args[3]>>] = None) =>
            checked_mul(last'.args[2], last'.args[4]) # None
       /\ (Committed("mint_liquidity")
             /\ Pairs[<<last'.args[1], last'.args[3]>>] # None) =>
            LET res == Reserves[Pairs[<<last'.args[1], last'.args[3]>>]]
            IN /\ res[1] + last'.args[2] <= MaxBalance
               /\ res[2] + last'.args[4] <= MaxBalance
       /\ Committed("swap") =>
            LET from == last'.args[1]
                to   == last'.args[3]
            IN ReserveOf(Reserves, Pairs[<<from, to>>], from, to) + last'.args[2]
                 <= MaxBalance]_vars

\* C10: swap checks amount_in > 0, then the pair, then the reserves, and each
\* failed check leaves every store and ledger balance as it was.
C10_SwapValidationOrder ==
    \A sender \in Traders, tp \in TokenPairs, amount_in \in SwapAmounts :
        LET r   == swap(Cur, sender, tp[1], amount_in, tp[2], now, build)
            lpt == Pairs[tp]
        IN /\ amount_in = 0 => r.err = "InsufficientAmount" /\ r.st = Cur
           /\ (amount_in > 0 /\ lpt = None) => r.err = "InvalidPair" /\ r.st = Cur
           /\ (amount_in > 0 /\ lpt # None
                 /\ ~(Reserves[lpt][1] > 0 /\ Reserves[lpt][2] > 0)) =>
                r.err = "InsufficientLiquidity" /\ r.st = Cur

\* A pool emptied by a burn, on which a swap of a positive amount is refused
\* for its reserves, while a swap of nothing on an unknown pair is refused for
\* its amount.
C10_Witness ==
    /\ last.op = "burn_liquidity"
    /\ \E tp \in TokenPairs, sender \in Traders, amount_in \in SwapAmounts :
         /\ Pairs[tp] # None
         /\ Reserves[Pairs[tp]] = <<0, 0>>
         /\ amount_in > 0
         /\ swap(Cur, sender, tp[1], amount_in, tp[2], now, build).err
              = "InsufficientLiquidity"
    /\ \E tp \in TokenPairs, sender \in Traders :
         /\ Pairs[tp] = None
         /\ swap(Cur, sender, tp[1], 0, tp[2], now, build).err = "InsufficientAmount"

\* C11: a committed swap pays out a positive amount; a swap whose computed
\* output is zero is never committed.
C11_ZeroOutputSwapRejected ==
    [][Committed("swap") => last'.events[1][5] > 0]_vars

\* The shares minted by the mint_liquidity recorded in l (its last ledger call).
SharesMinted(l) == l.calls[Len(l.calls)][4]

\* C12: a committed mint_liquidity, first or subsequent, issues a positive
\* number of shares.
C12_NoZeroShareMint ==
    [][Committed("mint_liquidity") => SharesMinted(last') > 0]_vars

\* C13: mint_liquidity with token0 = token1 returns IdenticalIdentifier having
\* written nothing, whatever the amounts; no pair (a, a) is registered, and
\* every issued pool is registered under two tokens token_lo < token_hi.
C13_IdenticalTokensRejected ==
    /\ \A sender \in Providers, a \in Tokens, amount0, amount1 \in MintAmounts :
         LET r == mint_liquidity(Cur, sender, a, amount0, a, amount1, now, build)
         IN r.err = "IdenticalIdentifier" /\ r.st = Cur
    /\ \A a \in AssetIds : Pairs[<<a, a>>] = None
    /\ \A lpt \in IssuedLpts :
         \E token_lo, token_hi \in AssetIds :
             token_lo < token_hi /\ Pairs[<<token_lo, token_hi>>] = lpt

\* A pool exists, and a provider who can afford both deposits is refused a
\* mint of a token against itself.
C13_Witness ==
    /\ LastCreatedPool
    /\ \E sender \in Providers, a \in Tokens, amount \in MintAmounts :
         /\ amount > 0
         /\ Balances[<<a, sender>>] >= amount + amount
         /\ mint_liquidity(Cur, sender, a, amount, a, amount, now, build).err
              = "IdenticalIdentifier"

\* C14: a committed first mint issues the asset id NextAssetId' - 1, mints
\* sqrt(amount0 * amount1) - MinimumLiquidity shares of it to the sender, stores
\* the reserves as (lower-id token's amount, higher-id token's amount) and
\* registers both orders of the pair; and a first mint whose
\* sqrt(amount0 * amount1) is below MinimumLiquidity is not committed.
C14_FirstMint ==
    [][/\ (Committed("mint_liquidity")
             /\ Pairs[<<last'.args[1], last'.args[3]>>] = None) =>
            LET sender  == last'.sender
                token0  == last'.args[1]
                amount0 == last'.args[2]
                token1  == last'.args[3]
                amount1 == last'.args[4]
                lpt     == NextAssetId' - 1
                shares  == sqrt(amount0 * amount1) - MinimumLiquidity
            IN /\ NextAssetId' = NextAssetId + 1
               /\ SharesMinted(last') = shares
               /\ Balances'[<<lpt, sender>>] = shares
               /\ TotalSupply'[lpt] = shares
               /\ Reserves'[lpt] = IF token0 < token1 THEN <<amount0, amount1>>
                                                     ELSE <<amount1, amount0>>
               /\ Pairs'[<<token0, token1>>] = lpt
               /\ Pairs'[<<token1, token0>>] = lpt
       /\ \A sender \in Providers, tp \in TokenPairs,
            amount0, amount1 \in MintAmounts :
            (/\ tp[1] # tp[2]
             /\ Pairs[tp] = None
             /\ sqrt(amount0 * amount1) < MinimumLiquidity) =>
                mint_liquidity(Cur, sender, tp[1], amount0, tp[2], amount1,
                               now, build).err # "Ok"]_vars

\* C15: a committed subsequent mint on a pool with supply S and stored reserves
\* (r0, r1) mints min(floor(amount0*S/r0), floor(amount1*S/r1)) shares to the
\* sender, and each of the two deposits is added whole to one stored reserve:
\* amount0 to r0 and amount1 to r1 when token0 < token1.
C15_SubsequentMintShares ==
    [][(Committed("mint_liquidity")
          /\ Pairs[<<last'.args[1], last'.args[3]>>] # None) =>
         LET sender  == last'.sender
             token0  == last'.args[1]
             amount0 == last'.args[2]
             token1  == last'.args[3]
             amount1 == last'.args[4]
             lpt     == Pairs[<<token0, token1>>]
             S       == TotalSupply[lpt]
             r0      == Reserves[lpt][1]
             r1      == Reserves[lpt][2]
             shares  == Min((amount0 * S) \div r0, (amount1 * S) \div r1)
         IN /\ S > 0
            /\ SharesMinted(last') = shares
            /\ Balances'[<<lpt, sender>>] = Balances[<<lpt, sender>>] + shares
            /\ TotalSupply'[lpt] = S + shares
            /\ Reserves'[lpt] \in {<<r0 + amount0, r1 + amount1>>,
                                   <<r1 + amount1, r0 + amount0>>}
            /\ token0 < token1 => Reserves'[lpt] = <<r0 + amount0, r1 + amount1>>]_vars

\* A subsequent mint has been committed whose two deposits were not in the
\* pool's proportion, and it was credited a positive number of shares.
C15_Witness ==
    /\ last.op = "mint_liquidity"
    /\ ~LastCreatedPool
    /\ last.args[1] < last.args[3]
    /\ SharesMinted(last) > 0
    /\ LET lpt     == Pairs[<<last.args[1], last.args[3]>>]
           amount0 == last.args[2]
           amount1 == last.args[4]
           S       == TotalSupply[lpt] - SharesMinted(last)
           r0      == Reserves[lpt][1] - amount0
           r1      == Reserves[lpt][2] - amount1
       IN /\ r0 > 0 /\ r1 > 0
          /\ (amount0 * S) \div r0 # (amount1 * S) \div r1

\* C16: when a pool is registered for (token0, token1) and its share supply is
\* zero, a mint_liquidity by a sender who can pay both deposits returns
\* InsufficientLiquidityMinted having written nothing.
C16_ZeroSupplyMintRejected ==
    \A sender \in Providers, tp \in TokenPairs, amount0, amount1 \in MintAmounts :
        (/\ tp[1] # tp[2]
         /\ Pairs[tp] # None
         /\ TotalSupply[Pairs[tp]] = 0
         /\ Balances[<<tp[1], sender>>] >= amount0
         /\ Balances[<<tp[2], sender>>] >= amount1) =>
            LET r == mint_liquidity(Cur, sender, tp[1], amount0, tp[2], amount1,
                                    now, build)
            IN r.err = "InsufficientLiquidityMinted" /\ r.st = Cur

\* C17: every registered pool has both stored reserves strictly positive.
C17_ReservesPositive ==
    \A lpt \in IssuedLpts : Reserves[lpt][1] > 0 /\ Reserves[lpt][2] > 0

\* No lpt id is registered in P for two different unordered pairs.
PairsUnique(P) ==
    \A p, q \in AssetIds \X AssetIds :
        (P[p] # None /\ P[p] = P[q]) => {p[1], p[2]} = {q[1], q[2]}

\* C18: a registered Pairs entry never changes; Pairs changes only in a
\* committed mint_liquidity for a pair registered in neither order, and then
\* only at the two orders of that pair; and, initially and after every change
\* of Pairs, an lpt id is registered for one unordered pair only.
C18_PairsOnlyFirstMint ==
    [][/\ Pairs' # Pairs =>
            /\ \A p \in AssetIds \X AssetIds :
                 Pairs[p] # None => Pairs'[p] = Pairs[p]
            /\ Committed("mint_liquidity")
            /\ LET token0 == last'.args[1]
                   token1 == last'.args[3]
               IN /\ Pairs[<<token0, token1>>] = None
                  /\ Pairs[<<token1, token0>>] = None
                  /\ \A p \in AssetIds \X AssetIds :
                       Pairs'[p] # Pairs[p] =>
                           p \in {<<token0, token1>>, <<token1, token0>>}
            /\ PairsUnique(Pairs')
       /\ ops = 0 => PairsUnique(Pairs)]_vars

\* Two pools are registered, and one of them has just had its whole share
\* supply burned and is still registered in both orders.
C18_Witness ==
    /\ last.op = "burn_liquidity"
    /\ Cardinality(IssuedLpts) = 2
    /\ \E lpt \in IssuedLpts, a, b \in Tokens :
         /\ lpt = last.args[1]
         /\ TotalSupply[lpt] = 0
         /\ a < b
         /\ Pairs[<<a, b>>] = lpt
         /\ Pairs[<<b, a>>] = lpt

\* The operation recorded in l emitted a Sync event.
HasSync(l) == \E i \in 1..Len(l.events) : l.events[i][1] = "Sync"

\* C19: when the block time mod 2^TimeBits equals LastBlockTimestamp, _update
\* of any pool returns Ok with no store changed and no event emitted, and an
\* operation committed at that time leaves LastAccumulativePrice and
\* LastBlockTimestamp as they were and emits no Sync; so an operation that
\* follows, at the same block time, one that emitted Sync emits none.
C19_ZeroElapsedNoUpdate ==
    [][/\ now % TimeModulus = LastBlockTimestamp =>
            /\ \A lpt \in AssetIds : _update(Cur, lpt, now, build) = Ok(Cur)
            /\ ops' = ops + 1 =>
                 /\ ~HasSync(last')
                 /\ LastAccumulativePrice' = LastAccumulativePrice
                 /\ LastBlockTimestamp' = LastBlockTimestamp
       /\ (HasSync(last) /\ ops' = ops + 1) => ~HasSync(last')]_vars

\* A swap on a pool with positive reserves has been committed without a Sync
\* at a block time at which an earlier operation had updated the oracle.
C19_Witness ==
    /\ last.op = "swap"
    /\ ~HasSync(last)
    /\ now > 0
    /\ LastBlockTimestamp = now % TimeModulus
    /\ LastBlockTimestamp > 0
    /\ LET lpt == Pairs[<<last.args[1], last.args[3]>>]
       IN /\ Reserves[lpt][1] > 0
          /\ Reserves[lpt][2] > 0
          /\ LastAccumulativePrice[lpt] # <<0, 0>>

\* C20: at every reachable block time, the wrapped time below
\* LastBlockTimestamp included, _update of a registered pool returns Ok.
C20_UpdateNeverFails ==
    \A lpt \in IssuedLpts : _update(Cur, lpt, now, build).err = "Ok"

\* The sum, over the tokens of `others` that are paired with t, of the stored
\* reserve of t in that pool.
RECURSIVE ReservedIn(_, _)
ReservedIn(t, others) ==
    IF others = {} THEN 0
    ELSE LET o    == CHOOSE x \in others : TRUE
             here == IF o # t /\ Pairs[<<t, o>>] # None
                     THEN ReserveOf(Reserves, Pairs[<<t, o>>], t, o)
                     ELSE 0
         IN here + ReservedIn(t, others \ {o})

\* C21: for every asset, the system account holds at least the sum of that
\* asset's stored reserves over all the pools that contain it.
C21_Solvency ==
    \A t \in Tokens : Balances[<<t, System>>] >= ReservedIn(t, Tokens)

=============================================================================
